---- MODULE Spec2Model ----
(***************************************************************************)
(* Model of run_consultation (src/app.py): the precondition checks, the    *)
(* configuration and construction of the agents and the group chat, the    *)
(* delegated exchange (an opaque engine that appends turns or raises), and *)
(* the post-processing of the returned transcript into the display list    *)
(* and the final plan.                                                     *)
(*                                                                         *)
(* Text is a sequence of tokens.  A token is one of the whitespace         *)
(* characters " " and "\n", or a run of non-whitespace text.  The sentinel *)
(* marker "--- FINAL PLAN ---" is the five tokens                          *)
(* "---", " ", "FINAL PLAN", " ", "---", so that it overlaps itself on     *)
(* "---" exactly as the literal does.  A dict is a record whose DOMAIN is  *)
(* the set of keys present.                                                *)
(***************************************************************************)
EXTENDS Integers, Sequences, FiniteSets, TLC

VARIABLES
    pc,                \* position inside run_consultation
    api_key,           \* argument
    max_rounds,        \* argument, in tenths (the slider hands over a number)
    patient_scenario,  \* argument
    masoud_name,       \* argument
    environ,           \* os.environ, restricted to GOOGLE_API_KEY
    genai_key,         \* what genai.configure was last given (<<>>: never called)
    agents,            \* names of the agents constructed so far
    groupchat,         \* the GroupChat: [max_round, messages], or <<>> before it exists
    chat_starts,       \* number of calls of user_proxy.initiate_chat
    raised,            \* texts of the exceptions raised inside the try block
    outcome,           \* which return statement was taken: "none" while running
    returned           \* the returned tuple <<list, string>>, <<>> while running

vars == <<pc, api_key, max_rounds, patient_scenario, masoud_name, environ,
          genai_key, agents, groupchat, chat_starts, raised, outcome, returned>>

-----------------------------------------------------------------------------
(* Bounds of the model *)

MaxTurns == 3

-----------------------------------------------------------------------------
(* Python string operations on token sequences *)

IsSpace(c) == c \in {" ", "\n"}

RECURSIVE LStrip(_)
LStrip(s) == IF s # <<>> /\ IsSpace(Head(s)) THEN LStrip(Tail(s)) ELSE s

RECURSIVE RStrip(_)
RStrip(s) ==
    IF s # <<>> /\ IsSpace(s[Len(s)]) THEN RStrip(SubSeq(s, 1, Len(s) - 1)) ELSE s

\* str.strip()
Strip(s) == RStrip(LStrip(s))

\* sub in s
Contains(s, sub) ==
    \E i \in 1..(Len(s) - Len(sub) + 1) : SubSeq(s, i, i + Len(sub) - 1) = sub

\* s.replace(old, new) for a non-empty old: left to right, non-overlapping
RECURSIVE Replace(_, _, _)
Replace(s, old, new) ==
    IF Len(s) < Len(old) THEN s
    ELSE IF SubSeq(s, 1, Len(old)) = old
         THEN new \o Replace(SubSeq(s, Len(old) + 1, Len(s)), old, new)
         ELSE <<Head(s)>> \o Replace(Tail(s), old, new)

\* truth value of a str
Truthy(s) == s # <<>>

\* int(x) of a non-negative number given in tenths
IntOf(x) == x \div 10

\* dict.get(key, default)
Get(d, key, default) == IF key \in DOMAIN d THEN d[key] ELSE default

-----------------------------------------------------------------------------
(* Literals of the source *)

Marker == <<"---", " ", "FINAL PLAN", " ", "---">>
Header == <<"PATIENT SCENARIO">>
Fallback == <<"Final plan not generated or found in the conversation.">>
MissingKeyMessage ==
    <<"**Error: API Key is missing.**", " ",
      "Please go to the Settings tab and enter your Google API Key.">>
EmptyScenarioMessage ==
    <<"**Error: Patient Scenario is empty.**", " ",
      "Please enter the patient details to start.">>
ScenarioLabel == <<"**", "Patient Scenario Input", "**">>
DefaultSpeaker == "Moderator"
UserProxyName == "User_Proxy"
JamesName == "James"
DavidName == "David"
JonesName == "Jones"

\* f"**{speaker_name}**"
Label(speaker_name) == <<"**", speaker_name, "**">>

\* the f-string handed to initiate_chat
InitialMessage(moderator, scenario) ==
    <<"\n", " ", "Hello team. Here is the patient case for today's consultation.",
      "\n", " ", moderator, ", please moderate and provide the final summary plan at the end.",
      "\n", "\n", " ", "---", " ", "PATIENT SCENARIO", " ", "---", "\n", " ">>
    \o scenario \o <<"\n", " ">>

\* the except block with a fixed text in place of str(e)
ErrorMessageWithoutText(e) ==
    <<"An error occurred: ", "\n", "\n", "Common issues:", "\n",
      "- Invalid or expired Google API key.", "\n",
      "- Ensure the model name 'gemini-1.5-flash-latest' is correct and you have access.", "\n",
      "- Network connectivity issues.", "\n", "\n",
      "Traceback:", "\n", "traceback.format_exc()">>

\* the string built in the except block
ErrorMessage(e) ==
    <<"An error occurred: ", e, "\n", "\n", "Common issues:", "\n",
      "- Invalid or expired Google API key.", "\n",
      "- Ensure the model name 'gemini-1.5-flash-latest' is correct and you have access.", "\n",
      "- Network connectivity issues.", "\n", "\n",
      "Traceback:", "\n", "traceback.format_exc()">>

\* str(KeyError('content'))
KeyErrorContent == "'content'"

-----------------------------------------------------------------------------
(* Arguments the caller may pass, and what the engine may hand back *)

ApiKeys == {<<>>, <<"AIza">>}
Scenarios == {<<>>, <<" ", "\n">>, <<" ", "fever", "\n">>}
RoundInputs == {20, 115}
ModeratorNames == {"Masoud", "James"}
ErrorTexts == {"API key not valid"}

\* The turns the engine may append to groupchat.messages.  The records are the
\* dicts the loops of run_consultation read: 'role' always, 'name' and
\* 'content' when present.
SubmitterTurns(moderator, scenario) ==
    { [role |-> "user", name |-> UserProxyName,
       content |-> InitialMessage(moderator, scenario)],
      [role |-> "user", name |-> UserProxyName, content |-> <<"thanks">>],
      [role |-> "user", name |-> UserProxyName] }

MarkedContents ==
    { Marker \o <<"\n", "Diagnosis:", " ", "X">>,
      <<"Plan", " ">> \o Marker \o <<" ", "rest", "\n">>,
      Marker \o <<" ", "FINAL PLAN", " ", "---", "\n", "end">> }

AgentTurns ==
    { [role |-> "assistant", name |-> "Masoud", content |-> c] :
          c \in MarkedContents \cup {<<" ", "agree", "\n">>} }
    \cup { [role |-> "assistant", name |-> JamesName,
            content |-> Marker \o <<"\n", "Diagnosis:", " ", "X">>],
           [role |-> "assistant", name |-> JamesName, content |-> <<" ", "agree", "\n">>],
           [role |-> "assistant", name |-> JamesName, content |-> <<" ", "\n">>],
           [role |-> "assistant", name |-> JamesName],
           [role |-> "assistant", content |-> <<"note">>] }

EngineTurns(moderator, scenario) == SubmitterTurns(moderator, scenario) \cup AgentTurns

-----------------------------------------------------------------------------
(* Lines 29-32: the precondition checks.  <<>> when both pass. *)

\* the second check without .strip()
PreconditionMessageNoStrip(key, scenario) ==
    IF ~Truthy(key) THEN MissingKeyMessage
    ELSE IF ~Truthy(scenario) THEN EmptyScenarioMessage
    ELSE <<>>

PreconditionMessage(key, scenario) ==
    IF ~Truthy(key) THEN MissingKeyMessage
    ELSE IF ~Truthy(Strip(scenario)) THEN EmptyScenarioMessage
    ELSE <<>>

\* one iteration of the display loop without the `if content:` test
FormatTurnNoContentCheck(msg, scenario) ==
    IF msg.role = "user"
    THEN IF "content" \notin DOMAIN msg
         THEN [raises |-> TRUE, pairs |-> <<>>]
         ELSE IF Contains(msg.content, Header)
              THEN [raises |-> FALSE, pairs |-> << <<ScenarioLabel, scenario>> >>]
              ELSE [raises |-> FALSE, pairs |-> <<>>]
    ELSE [raises |-> FALSE,
          pairs |-> << <<Label(Get(msg, "name", DefaultSpeaker)),
                         Strip(Get(msg, "content", <<>>))>> >>]

(* Lines 71-80: one iteration of the display loop.  raises is TRUE when the
   iteration ends in a KeyError; pairs are the pairs it appends. *)
FormatTurn(msg, scenario) ==
    IF msg.role = "user"
    THEN IF "content" \notin DOMAIN msg
         THEN [raises |-> TRUE, pairs |-> <<>>]
         ELSE IF Contains(msg.content, Header)
              THEN [raises |-> FALSE, pairs |-> << <<ScenarioLabel, scenario>> >>]
              ELSE [raises |-> FALSE, pairs |-> <<>>]
    ELSE LET speaker_name == Get(msg, "name", DefaultSpeaker)
             content == Strip(Get(msg, "content", <<>>))
         IN  IF Truthy(content)
             THEN [raises |-> FALSE, pairs |-> << <<Label(speaker_name), content>> >>]
             ELSE [raises |-> FALSE, pairs |-> <<>>]

\* the display loop, front to back; it stops at the first iteration that raises
RECURSIVE FormatHistory(_, _)
FormatHistory(chat_history, scenario) ==
    IF chat_history = <<>> THEN [raises |-> FALSE, pairs |-> <<>>]
    ELSE LET first == FormatTurn(Head(chat_history), scenario)
         IN  IF first.raises THEN first
             ELSE LET rest == FormatHistory(Tail(chat_history), scenario)
                  IN  [raises |-> rest.raises,
                       pairs |-> IF rest.raises THEN <<>> ELSE first.pairs \o rest.pairs]

\* the condition of the extraction loop without the comparison of the name
IsMarkedTurn(msg, moderator) == Contains(Get(msg, "content", <<>>), Marker)

(* Line 85: the condition of the extraction loop *)
IsFinalPlanTurn(msg, moderator) ==
    /\ "name" \in DOMAIN msg
    /\ msg.name = moderator
    /\ Contains(Get(msg, "content", <<>>), Marker)

\* line 86 without .strip()
PlanTextNoStrip(content) == Replace(content, Marker, <<>>)

(* Line 86 *)
PlanText(content) == Strip(Replace(content, Marker, <<>>))

\* the extraction loop looking at chat_history[i], chat_history[i-1], ...
RECURSIVE ScanReversed(_, _, _)
ScanReversed(chat_history, moderator, i) ==
    IF i = 0 THEN Fallback
    ELSE IF IsFinalPlanTurn(chat_history[i], moderator)
         THEN PlanText(chat_history[i].content)
         ELSE ScanReversed(chat_history, moderator, i - 1)

\* the extraction loop without reversed(): the first match from the front
RECURSIVE ScanForward(_, _, _)
ScanForward(chat_history, moderator, i) ==
    IF i > Len(chat_history) THEN Fallback
    ELSE IF IsFinalPlanTurn(chat_history[i], moderator)
         THEN PlanText(chat_history[i].content)
         ELSE ScanForward(chat_history, moderator, i + 1)

ExtractFinalPlanForward(chat_history, moderator) ==
    ScanForward(chat_history, moderator, 1)

(* Lines 83-87 *)
ExtractFinalPlan(chat_history, moderator) ==
    ScanReversed(chat_history, moderator, Len(chat_history))

-----------------------------------------------------------------------------
(* The state machine *)

Init ==
    /\ pc = "start"
    /\ api_key \in ApiKeys
    /\ max_rounds \in RoundInputs
    /\ patient_scenario \in Scenarios
    /\ masoud_name \in ModeratorNames
    /\ environ = <<>>
    /\ genai_key = <<>>
    /\ agents = <<>>
    /\ groupchat = <<>>
    /\ chat_starts = 0
    /\ raised = <<>>
    /\ outcome = "none"
    /\ returned = <<>>

Messages == groupchat[1].messages

\* the except block (lines 91-98)
Except(e) ==
    /\ raised' = Append(raised, e)
    /\ outcome' = "error"
    /\ returned' = << <<>>, ErrorMessage(e) >>
    /\ pc' = "done"

\* lines 29-32
CheckInputs ==
    /\ pc = "start"
    /\ LET message == PreconditionMessage(api_key, patient_scenario)
       IN  IF message # <<>>
           THEN /\ returned' = << <<>>, message >>
                /\ outcome' = "precondition"
                /\ pc' = "done"
           ELSE /\ pc' = "configure"
                /\ UNCHANGED <<returned, outcome>>
    /\ UNCHANGED <<api_key, max_rounds, patient_scenario, masoud_name, environ,
                   genai_key, agents, groupchat, chat_starts, raised>>

\* lines 36-42, genai.configure returning
Configure ==
    /\ pc = "configure"
    /\ environ' = [GOOGLE_API_KEY |-> api_key]
    /\ genai_key' = api_key
    /\ pc' = "agents"
    /\ UNCHANGED <<api_key, max_rounds, patient_scenario, masoud_name, agents,
                   groupchat, chat_starts, raised, outcome, returned>>

\* lines 36-37, genai.configure raising
ConfigureRaises ==
    /\ pc = "configure"
    /\ environ' = [GOOGLE_API_KEY |-> api_key]
    /\ \E e \in ErrorTexts : Except(e)
    /\ UNCHANGED <<api_key, max_rounds, patient_scenario, masoud_name, genai_key,
                   agents, groupchat, chat_starts>>

\* lines 45-49
BuildAgents ==
    /\ pc = "agents"
    /\ agents' = <<JamesName, DavidName, JonesName, masoud_name, UserProxyName>>
    /\ pc' = "groupchat"
    /\ UNCHANGED <<api_key, max_rounds, patient_scenario, masoud_name, environ,
                   genai_key, groupchat, chat_starts, raised, outcome, returned>>

\* lines 45-49, a constructor raising
BuildAgentsRaises ==
    /\ pc = "agents"
    /\ \E e \in ErrorTexts : Except(e)
    /\ UNCHANGED <<api_key, max_rounds, patient_scenario, masoud_name, environ,
                   genai_key, agents, groupchat, chat_starts>>

\* lines 52-54
BuildGroupChat ==
    /\ pc = "groupchat"
    /\ groupchat' = << [max_round |-> IntOf(max_rounds), messages |-> <<>>] >>
    /\ pc' = "initiate"
    /\ UNCHANGED <<api_key, max_rounds, patient_scenario, masoud_name, environ,
                   genai_key, agents, chat_starts, raised, outcome, returned>>

\* lines 57-66, the call of initiate_chat
InitiateChat ==
    /\ pc = "initiate"
    /\ chat_starts' = chat_starts + 1
    /\ pc' = "chatting"
    /\ UNCHANGED <<api_key, max_rounds, patient_scenario, masoud_name, environ,
                   genai_key, agents, groupchat, raised, outcome, returned>>

\* inside initiate_chat: the engine appends a turn to groupchat.messages
EngineTurn ==
    /\ pc = "chatting"
    /\ Len(Messages) < MaxTurns
    /\ \E turn \in EngineTurns(masoud_name, patient_scenario) :
           groupchat' = << [groupchat[1] EXCEPT !.messages = Append(@, turn)] >>
    /\ UNCHANGED <<pc, api_key, max_rounds, patient_scenario, masoud_name, environ,
                   genai_key, agents, chat_starts, raised, outcome, returned>>

\* inside initiate_chat: the engine raises
EngineRaises ==
    /\ pc = "chatting"
    /\ \E e \in ErrorTexts : Except(e)
    /\ UNCHANGED <<api_key, max_rounds, patient_scenario, masoud_name, environ,
                   genai_key, agents, groupchat, chat_starts>>

\* initiate_chat returns; lines 69-89, and lines 91-98 when the display loop raises
Process ==
    /\ pc = "chatting"
    /\ LET formatted == FormatHistory(Messages, patient_scenario)
       IN  IF formatted.raises
           THEN Except(KeyErrorContent)
           ELSE /\ returned' = <<formatted.pairs, ExtractFinalPlan(Messages, masoud_name)>>
                /\ outcome' = "ok"
                /\ pc' = "done"
                /\ UNCHANGED raised
    /\ UNCHANGED <<api_key, max_rounds, patient_scenario, masoud_name, environ,
                   genai_key, agents, groupchat, chat_starts>>

Next ==
    \/ CheckInputs
    \/ Configure
    \/ ConfigureRaises
    \/ BuildAgents
    \/ BuildAgentsRaises
    \/ BuildGroupChat
    \/ InitiateChat
    \/ EngineTurn
    \/ EngineRaises
    \/ Process

Spec == Init /\ [][Next]_vars

-----------------------------------------------------------------------------
(* Vocabulary of the properties, stated on the transcript itself *)

MinRounds == 2
MaxRounds == 10

EngineReturned == pc = "done" /\ (outcome = "ok" \/ raised = <<KeyErrorContent>>)

HasContent(msg) == "content" \in DOMAIN msg
HasName(msg) == "name" \in DOMAIN msg
IsBlank(s) == \A i \in 1..Len(s) : s[i] \in {" ", "\n"}

\* the marker's five tokens stand at position i of text s
MarkerAt(s, i) ==
    /\ i + 4 <= Len(s)
    /\ s[i] = "---" /\ s[i + 1] = " " /\ s[i + 2] = "FINAL PLAN"
    /\ s[i + 3] = " " /\ s[i + 4] = "---"

\* indices of the turns attributed to the configured moderator that carry the marker
Qualifying ==
    { i \in 1..Len(Messages) :
        /\ HasName(Messages[i]) /\ Messages[i].name = masoud_name
        /\ HasContent(Messages[i])
        /\ \E k \in 1..Len(Messages[i].content) : MarkerAt(Messages[i].content, k) }

LastQualifying == CHOOSE i \in Qualifying : \A j \in Qualifying : j <= i

\* the text of s that is neither whitespace nor a token of the marker
TextTokens(s) == SelectSeq(s, LAMBDA t : t \notin {" ", "\n", "---", "FINAL PLAN"})

\* indices of the submitter turns that carry the case-injection header
HeaderTurns ==
    { i \in 1..Len(Messages) :
        /\ Messages[i].role = "user"
        /\ HasContent(Messages[i])
        /\ \E k \in 1..Len(Messages[i].content) :
               Messages[i].content[k] = "PATIENT SCENARIO" }

ScenarioPairs ==
    { j \in 1..Len(returned[1]) :
        returned[1][j][1] = <<"**", "Patient Scenario Input", "**">> }

-----------------------------------------------------------------------------
(* C1: a call with an empty credential or a blank case description returns the
   empty list with the message of the check that failed, and touches nothing
   outside: the environment is not written, genai is not configured, no agent
   and no group chat is constructed, initiate_chat is never called. *)
PreconditionFailureTouchesNothing ==
    (api_key = <<>> \/ IsBlank(patient_scenario)) =>
        /\ pc \in {"start", "done"}
        /\ DOMAIN environ = {} /\ genai_key = <<>> /\ agents = <<>>
        /\ groupchat = <<>> /\ chat_starts = 0 /\ raised = <<>>
        /\ pc = "done" =>
              /\ returned[1] = <<>>
              /\ returned[2] = IF api_key = <<>>
                               THEN <<"**Error: API Key is missing.**", " ",
                                      "Please go to the Settings tab and enter your Google API Key.">>
                               ELSE <<"**Error: Patient Scenario is empty.**", " ",
                                      "Please enter the patient details to start.">>

WhitespaceScenarioRejected ==
    /\ pc = "done" /\ outcome = "precondition"
    /\ api_key # <<>> /\ patient_scenario = <<" ", "\n">>

(* C2: once the checks passed, an exception raised by configuration, agent
   construction or the exchange ends the run with the empty list and a
   diagnostic that contains the exception's text; nothing is retried. *)
ExceptionYieldsEmptyListAndDiagnostic ==
    /\ chat_starts <= 1
    /\ raised # <<>> =>
          /\ pc = "done" /\ Len(raised) = 1
          /\ returned[1] = <<>>
          /\ \E k \in 1..Len(returned[2]) : returned[2][k] = raised[1]

EngineRaisedAfterTurns ==
    /\ pc = "done" /\ raised = <<"API key not valid">>
    /\ groupchat # <<>> /\ Len(Messages) >= 2

(* C3: when two or more turns of the configured moderator carry the marker,
   the extraction yields the plan of the one closest to the end, whatever
   stands between or after them. *)
LastMarkedModeratorTurnWins ==
    (groupchat # <<>> /\ Cardinality(Qualifying) >= 2) =>
        /\ ExtractFinalPlan(Messages, masoud_name)
               = PlanText(Messages[LastQualifying].content)
        /\ outcome = "ok" => returned[2] = PlanText(Messages[LastQualifying].content)

TwoMarkedModeratorTurnsExtracted ==
    /\ pc = "done" /\ outcome = "ok"
    /\ Len(Messages) = 3
    /\ Qualifying = {1, 3}
    /\ Messages[1].content # Messages[3].content
    /\ HasName(Messages[2]) /\ Messages[2].name # masoud_name
    /\ HasContent(Messages[2])
    /\ \E k \in 1..Len(Messages[2].content) : MarkerAt(Messages[2].content, k)
    /\ returned[2] # PlanText(Messages[1].content)

(* C4: when no turn is both attributed to the configured moderator and marked,
   the extraction yields the fallback string verbatim. *)
NoQualifyingTurnYieldsFallback ==
    (groupchat # <<>> /\ Qualifying = {}) =>
        /\ ExtractFinalPlan(Messages, masoud_name)
               = <<"Final plan not generated or found in the conversation.">>
        /\ outcome = "ok" =>
               returned[2] = <<"Final plan not generated or found in the conversation.">>

MarkerOnlyFromOtherSpeaker ==
    /\ pc = "done" /\ outcome = "ok"
    /\ Qualifying = {}
    /\ \E i \in 1..Len(Messages) :
           /\ HasName(Messages[i]) /\ Messages[i].name # masoud_name
           /\ HasContent(Messages[i])
           /\ \E k \in 1..Len(Messages[i].content) : MarkerAt(Messages[i].content, k)
    /\ \E i \in 1..Len(Messages) :
           HasName(Messages[i]) /\ Messages[i].name = masoud_name

(* C5: the plan extracted from a qualifying turn has no leading or trailing
   whitespace, is shorter than the turn's content by at least the marker, keeps
   the turn's text in order, and is exactly "Diagnosis: X" for the content
   "--- FINAL PLAN ---\nDiagnosis: X". *)
PlanIsContentWithoutMarkerStripped ==
    (groupchat # <<>> /\ Qualifying # {}) =>
        LET content == Messages[LastQualifying].content
            plan == ExtractFinalPlan(Messages, masoud_name)
        IN  /\ plan # <<>> =>
                  plan[1] \notin {" ", "\n"} /\ plan[Len(plan)] \notin {" ", "\n"}
            /\ Len(plan) + 5 <= Len(content)
            /\ TextTokens(plan) = TextTokens(content)
            /\ content = <<"---", " ", "FINAL PLAN", " ", "---", "\n", "Diagnosis:", " ", "X">>
                  => plan = <<"Diagnosis:", " ", "X">>
            /\ outcome = "ok" => returned[2] = plan

DiagnosisExampleExtracted ==
    /\ pc = "done" /\ outcome = "ok"
    /\ Qualifying # {}
    /\ Messages[LastQualifying].content
           = <<"---", " ", "FINAL PLAN", " ", "---", "\n", "Diagnosis:", " ", "X">>
    /\ returned[2] = <<"Diagnosis:", " ", "X">>

(* C6: when the transcript holds a submitter turn with the case-injection
   header, the display list holds exactly one "Patient Scenario Input" pair,
   and it carries the original case text. *)
ExactlyOneScenarioPair ==
    (pc = "done" /\ outcome = "ok" /\ HeaderTurns # {}) =>
        /\ Cardinality(ScenarioPairs) = 1
        /\ \A j \in ScenarioPairs : returned[1][j][2] = patient_scenario

(* C7: every turn of a named speaker other than the moderator and the
   submitter whose trimmed content is non-empty is in the display list, as a
   pair of its own name and its trimmed content. *)
EveryOtherSpeakerTurnDisplayed ==
    EngineReturned =>
        \A i \in 1..Len(Messages) :
            ( /\ Messages[i].role # "user"
              /\ HasName(Messages[i]) /\ Messages[i].name # masoud_name
              /\ HasContent(Messages[i]) /\ ~IsBlank(Messages[i].content) )
            => \E j \in 1..Len(returned[1]) :
                   /\ returned[1][j][1] = <<"**", Messages[i].name, "**">>
                   /\ returned[1][j][2] = Strip(Messages[i].content)

(* C8: no pair of a returned display list has empty or whitespace-only
   content, and the list has no more pairs than the transcript has turns with
   non-blank content. *)
NoBlankPairDisplayed ==
    pc = "done" =>
        /\ \A j \in 1..Len(returned[1]) : ~IsBlank(returned[1][j][2])
        /\ groupchat # <<>> =>
               Len(returned[1]) <= Cardinality({ i \in 1..Len(Messages) :
                   HasContent(Messages[i]) /\ ~IsBlank(Messages[i].content) })

BlankTurnsLeftOut ==
    /\ pc = "done" /\ outcome = "ok"
    /\ Len(returned[1]) = 2
    /\ \E i \in 1..Len(Messages) :
           HasContent(Messages[i]) /\ IsBlank(Messages[i].content)

(* C9: the exchange is only ever started with a round limit between 2 and 10. *)
RoundLimitValidated ==
    chat_starts > 0 =>
        groupchat[1].max_round >= MinRounds /\ groupchat[1].max_round <= MaxRounds

(* C10: whatever the shape of the turns the engine returned, the run ends with
   a display list and a final plan, never with the error outcome. *)
PostProcessingNeverFails ==
    EngineReturned => outcome = "ok"

====
